---- MODULE Spec2Model ----
(***************************************************************************)
(* Model of src/cronJob.js: the poll loop that queries the latest block of *)
(* every network under two strategies, fetches the logs of every tracked   *)
(* event from the block after the last processed one up to the latest      *)
(* block, inserts them into the sink and records the last processed block. *)
(***************************************************************************)
EXTENDS Integers, Sequences, FiniteSets, TLC

\* ------------------------------------------------------------------ bounds

\* Highest block number an RPC endpoint reports.
MaxBlock == 3

\* Longest list of log entries an eth_getLogs response carries.
MaxLogs == 2

\* ------------------------------------------------------- JavaScript values

\* The value of a missing property (lastProcessedBlocks[key] before any write).
Undefined == -2

\* The number parseInt returns when its argument has no leading hex digit.
NaN == -1

IsNumber(v) == v >= 0

\* JavaScript truthiness of a number or undefined: 0, NaN and undefined are falsy.
Truthy(v) == v # Undefined /\ v # NaN /\ v # 0

\* a > b in JavaScript: false whenever an operand is NaN.
GreaterThan(a, b) == a # NaN /\ b # NaN /\ a > b

\* a + 1 in JavaScript.
PlusOne(a) == IF a = NaN THEN NaN ELSE a + 1

\* Strings are sequences of one-character strings.
HexChars == <<"0", "1", "2", "3", "4", "5", "6", "7",
              "8", "9", "a", "b", "c", "d", "e", "f">>

DigitValue(c) == (CHOOSE k \in 1..Len(HexChars) : HexChars[k] = c) - 1

IsHexChar(c) == \E k \in 1..Len(HexChars) : HexChars[k] = c

RECURSIVE ToString16(_)
\* Number.prototype.toString(16): the hex digits of n, "NaN" for NaN.
ToString16(n) ==
  IF n = NaN THEN <<"N", "a", "N">>
  ELSE IF n < 16 THEN <<HexChars[n + 1]>>
  ELSE Append(ToString16(n \div 16), HexChars[(n % 16) + 1])

\* `0x${n.toString(16)}`
HexQuantity(n) == <<"0", "x">> \o ToString16(n)

RECURSIVE ParseDigits(_, _, _)
\* The value of the longest prefix of s made of hex digits, NaN when it is empty.
ParseDigits(s, acc, seen) ==
  IF s = <<>> \/ ~IsHexChar(Head(s))
    THEN (IF seen THEN acc ELSE NaN)
    ELSE ParseDigits(Tail(s), acc * 16 + DigitValue(Head(s)), TRUE)

StripPrefix(s) ==
  IF Len(s) >= 2 /\ s[1] = "0" /\ s[2] = "x" THEN SubSeq(s, 3, Len(s)) ELSE s

\* A property that is absent reads as undefined; String(undefined) is "undefined".
UndefinedString == <<"u", "n", "d", "e", "f", "i", "n", "e", "d">>

\* parseInt(s, 16): an optional 0x prefix, then the leading hex digits.
ParseInt16(s) == ParseDigits(StripPrefix(s), 0, FALSE)

\* ------------------------------------------------------------ configuration

Strategies == <<"eth_blockNumber", "eth_getBlockByNumber">>

UnsupportedChain == "Unsupported chain"

\* getRpcUrl: the endpoint of a chain, or the error it throws.
getRpcUrl(chain) ==
  CASE chain = "celo" -> "https://celo-mainnet.g.alchemy.com/v2/"
    [] chain = "coinbase_base" -> "https://base-mainnet.g.alchemy.com/v2/"
    [] chain = "ethereum" -> "https://eth-mainnet.g.alchemy.com/v2/"
    [] chain = "fantom" -> "https://fantom-mainnet.g.alchemy.com/v2/"
    [] chain = "linea" -> "https://linea-mainnet.g.alchemy.com/v2/"
    [] chain = "mantle" -> "https://mantle-mainnet.g.alchemy.com/v2/"
    [] OTHER -> UnsupportedChain

UnsupportedEvent == "Unsupported event"

\* getEventTopic: the topic hash of an event name, or the error it throws.
getEventTopic(eventName) ==
  CASE eventName = "PairCreated" ->
         "0x0d3648bd0f6ba80134a33ba9275ac585d9d315f0ad8355cddefde31afa28d0e9"
    [] eventName = "PoolCreated" ->
         "0x783cca1c0412dd0d695e784568c96da2e9c22ff989357a2e8b1d9b2b4e6b7118"
    [] OTHER -> UnsupportedEvent

\* One row of events.csv.
Row(chain, address, exchange, event) ==
  [chain |-> chain, factory_address |-> address,
   exchange_name |-> exchange, event |-> event]

\* The contents of events.csv the model is run on.
EventFiles ==
  { <<>>,
    << Row("ethereum", "0xA", "uniswap_v2", "PairCreated") >>,
    << Row("ethereum", "0xA", "uniswap_v2", "PairCreated"),
       Row("ethereum", "0xA", "uniswap_v3", "PoolCreated") >>,
    << Row("ethereum", "0xA", "uniswap_v2", "PairCreated"),
       Row("ethereum", "0xA", "sushi", "Swap") >>,
    << Row("ethereum", "0xA", "uniswap_v2", "PairCreated"),
       Row("ethereum", "0xB", "uniswap_v3", "PoolCreated") >>,
    << Row("ethereum", "0xA", "sushi", "Swap"),
       Row("ethereum", "0xB", "uniswap_v3", "PoolCreated") >>,
    << Row("ethereum", "0xA", "uniswap_v2", "PairCreated"),
       Row("ethereum", "0xB", "sushi", "Swap") >>,
    << Row("polygon", "0xA", "quickswap", "PairCreated"),
       Row("celo", "0xB", "ubeswap", "PairCreated") >>,
    << Row("celo", "0xB", "ubeswap", "PairCreated"),
       Row("polygon", "0xA", "quickswap", "PairCreated") >>,
    << Row("ethereum", "0xA", "uniswap_v2", "PairCreated"),
       Row("celo", "0xB", "ubeswap", "PairCreated") >> }

Chains == {"ethereum", "celo", "polygon"}
Addresses == {"0xA", "0xB"}

\* `${event.chain}-${event.factory_address}-${strategy}`
Key(chain, address, strategy) == <<chain, address, strategy>>

KeyOf(event, strategy) == Key(event.chain, event.factory_address, strategy)

Keys == { Key(c, a, Strategies[s]) : c \in Chains, a \in Addresses, s \in 1..2 }

Range(seq) == { seq[k] : k \in 1..Len(seq) }

RECURSIVE NetworkOrder(_)
\* Object.entries(eventsByNetwork): the chains in order of first appearance.
NetworkOrder(evs) ==
  IF evs = <<>> THEN <<>>
  ELSE LET rest == NetworkOrder(SubSeq(evs, 1, Len(evs) - 1))
           c == evs[Len(evs)].chain
       IN IF c \in Range(rest) THEN rest ELSE Append(rest, c)

\* eventsByNetwork[network]: the rows of a chain, in file order.
NetworkEvents(evs, net) == SelectSeq(evs, LAMBDA e : e.chain = net)

\* -------------------------------------------------------------- RPC replies

\* What axios.post resolves to or rejects with for eth_blockNumber: a rejected
\* request, a reply whose body has a result, a reply whose body has none.
BlockNumberReplies ==
  { [status |-> "rejected"] }
  \cup { [status |-> "ok", data |-> [result |-> HexQuantity(b)]] : b \in 0..MaxBlock }
  \cup { [status |-> "ok", data |-> [error |-> "limit exceeded"]] }

\* The same for eth_getBlockByNumber("finalized"): the result is a block object.
BlockByNumberReplies ==
  { [status |-> "rejected"] }
  \cup { [status |-> "ok", data |-> [result |-> [number |-> HexQuantity(b)]]] :
           b \in 0..MaxBlock }
  \cup { [status |-> "ok", data |-> [result |-> [hash |-> "0xh"]]] }
  \cup { [status |-> "ok", data |-> [error |-> "limit exceeded"]] }

\* The k-th raw log entry of a reply to a query that ends at block `toBlock`.
RawLog(k, toBlock) ==
  [transactionIndex |-> HexQuantity(k - 1),
   transactionHash |-> "0xt",
   logIndex |-> HexQuantity(k),
   removed |-> FALSE,
   blockNumber |-> HexQuantity(toBlock),
   blockHash |-> "0xb"]

\* The same for eth_getLogs: the result is a list of 0..MaxLogs raw entries.
LogsReplies(toBlock) ==
  { [status |-> "rejected"] }
  \cup { [status |-> "ok",
          data |-> [result |-> [k \in 1..len |-> RawLog(k, toBlock)]]] :
           len \in 0..MaxLogs }
  \cup { [status |-> "ok", data |-> [error |-> "invalid params"]] }

HasResult(reply) == reply.status = "ok" /\ "result" \in DOMAIN reply.data

\* -------------------------------------------------------------------- state

VARIABLES
  events,                          \* the rows read from events.csv
  lastProcessedBlocks,             \* key -> last processed block, Undefined if absent
  pc,                              \* where the single flow of control stands
  n,                               \* index of the network being processed
  strategy,                        \* index in Strategies of the running pass
  i,                               \* index of the event in networkEvents
  latestBlockEthBlockNumber,       \* processLogs' local of the same name
  latestBlockEthGetBlockByNumber,  \* processLogs' local of the same name
  request,                         \* the eth_getLogs request in flight
  logs,                            \* the entries getLogs returned
  j,                               \* index in logs of the entry being inserted
  response,                        \* the last reply to a latest-block query
  err,                             \* the error that ended the last iteration
  iterated,                        \* processLogs has been called at least once
  batch,                           \* the last successful fetch and its inserts
  fetchedTo,                       \* key -> end of the last range fetched
  fetchedTopics                    \* key -> topics of the fetches that returned a list

vars == <<events, lastProcessedBlocks, pc, n, strategy, i,
          latestBlockEthBlockNumber, latestBlockEthGetBlockByNumber,
          request, logs, j, response, err, iterated, batch,
          fetchedTo, fetchedTopics>>

NoRequest == [method |-> "none"]
NoReply == [status |-> "none"]
NoBatch == [key |-> <<>>]

Networks == NetworkOrder(events)
network == Networks[n]
networkEvents == NetworkEvents(events, network)
event == networkEvents[i]
\* latestBlock with latestBlockEthBlockNumber passed to both calls of
\* processNetworkLogs.
latestBlockOfFirstQuery == latestBlockEthBlockNumber

\* The parameter latestBlock of the running call of processNetworkLogs.
latestBlock ==
  IF strategy = 1 THEN latestBlockEthBlockNumber ELSE latestBlockEthGetBlockByNumber
\* eventKey with the key built for the first strategy in both passes.
eventKeyOfFirstStrategy == KeyOf(event, Strategies[1])

\* `${eventKey}-${strategy}` of the running round.
eventKey == KeyOf(event, Strategies[strategy])

Init ==
  /\ events \in EventFiles
  /\ lastProcessedBlocks = [k \in Keys |-> Undefined]
  /\ pc = "loop"
  /\ n = 0
  /\ strategy = 1
  /\ i = 0
  /\ latestBlockEthBlockNumber = Undefined
  /\ latestBlockEthGetBlockByNumber = Undefined
  /\ request = NoRequest
  /\ logs = <<>>
  /\ j = 0
  /\ response = NoReply
  /\ err = "none"
  /\ iterated = FALSE
  /\ batch = NoBatch
  /\ fetchedTo = [k \in Keys |-> Undefined]
  /\ fetchedTopics = [k \in Keys |-> {}]

\* The locals of processLogs and processNetworkLogs go out of scope.
LeaveIteration ==
  /\ pc' = "loop"
  /\ n' = 0
  /\ strategy' = 1
  /\ i' = 0
  /\ latestBlockEthBlockNumber' = Undefined
  /\ latestBlockEthGetBlockByNumber' = Undefined
  /\ request' = NoRequest
  /\ logs' = <<>>
  /\ j' = 0

\* Throw without the try/catch of processLogs and runContinuously: the
\* exception ends the process.
ThrowUncaught(kind) ==
  /\ pc' = "exit"
  /\ n' = 0
  /\ strategy' = 1
  /\ i' = 0
  /\ latestBlockEthBlockNumber' = Undefined
  /\ latestBlockEthGetBlockByNumber' = Undefined
  /\ request' = NoRequest
  /\ logs' = <<>>
  /\ j' = 0
  /\ err' = kind

\* An exception reaches the catch of processLogs, which logs it and returns;
\* runContinuously then calls processLogs again.
Throw(kind) ==
  /\ LeaveIteration
  /\ err' = kind

\* The for loop of processLogs moves to the next network, or ends.
NextNetwork ==
  IF n < Len(Networks)
    THEN /\ pc' = "getRpcUrl"
         /\ n' = n + 1
         /\ strategy' = 1
         /\ i' = 0
         /\ latestBlockEthBlockNumber' = Undefined
         /\ latestBlockEthGetBlockByNumber' = Undefined
         /\ request' = NoRequest
         /\ logs' = <<>>
         /\ j' = 0
    ELSE LeaveIteration

\* The for loop of processNetworkLogs moves to the next event; after the last
\* one the second pass starts, and after the second pass the next network.
NextEvent ==
  IF i < Len(networkEvents)
    THEN /\ pc' = "target"
         /\ i' = i + 1
         /\ request' = NoRequest
         /\ logs' = <<>>
         /\ j' = 0
         /\ UNCHANGED <<n, strategy, latestBlockEthBlockNumber,
                        latestBlockEthGetBlockByNumber>>
    ELSE IF strategy = 1
      THEN /\ pc' = "target"
           /\ strategy' = 2
           /\ i' = 1
           /\ request' = NoRequest
           /\ logs' = <<>>
           /\ j' = 0
           /\ UNCHANGED <<n, latestBlockEthBlockNumber,
                          latestBlockEthGetBlockByNumber>>
      ELSE NextNetwork

\* ------------------------------------------------------------------ actions

\* ProcessLogs with `processLogs()` not awaited in runContinuously: the next
\* call starts from the first network while the previous one is still running.
ProcessLogsNotAwaited ==
  /\ IF Networks # <<>>
       THEN /\ pc' = "getRpcUrl"
            /\ n' = 1
            /\ strategy' = 1
            /\ i' = 0
            /\ latestBlockEthBlockNumber' = Undefined
            /\ latestBlockEthGetBlockByNumber' = Undefined
            /\ request' = NoRequest
            /\ logs' = <<>>
            /\ j' = 0
       ELSE LeaveIteration
  /\ err' = "none"
  /\ iterated' = TRUE
  /\ response' = NoReply
  /\ batch' = NoBatch
  /\ UNCHANGED <<events, lastProcessedBlocks, fetchedTo, fetchedTopics>>

\* runContinuously calls processLogs, which groups the events by network and
\* enters the loop over the networks.
ProcessLogs ==
  /\ pc = "loop"
  /\ NextNetwork
  /\ err' = "none"
  /\ iterated' = TRUE
  /\ response' = NoReply
  /\ batch' = NoBatch
  /\ UNCHANGED <<events, lastProcessedBlocks, fetchedTo, fetchedTopics>>

\* GetRpcUrl with a getRpcUrl that builds a URL for any chain name: the first
\* query is sent whatever the network.
GetRpcUrlAnyChain ==
  /\ pc = "getRpcUrl"
  /\ pc' = "eth_blockNumber"
  /\ UNCHANGED <<n, strategy, i, latestBlockEthBlockNumber,
                 latestBlockEthGetBlockByNumber, request, logs, j, err>>
  /\ batch' = NoBatch
  /\ UNCHANGED <<events, lastProcessedBlocks, response, iterated,
                 fetchedTo, fetchedTopics>>

\* const RPC_URL = getRpcUrl(network)
GetRpcUrl ==
  /\ pc = "getRpcUrl"
  /\ IF getRpcUrl(network) = UnsupportedChain
       THEN Throw("UnsupportedNetworkError")
       ELSE /\ pc' = "eth_blockNumber"
            /\ UNCHANGED <<n, strategy, i, latestBlockEthBlockNumber,
                           latestBlockEthGetBlockByNumber, request, logs, j, err>>
  /\ batch' = NoBatch
  /\ UNCHANGED <<events, lastProcessedBlocks, response, iterated,
                 fetchedTo, fetchedTopics>>

\* getLatestBlockNumber(RPC_URL, "eth_blockNumber") on a reply: the value it
\* returns; a rejected request throws.
BlockNumberOf(reply) ==
  ParseInt16(IF "result" \in DOMAIN reply.data
               THEN reply.data.result ELSE UndefinedString)

\* await getLatestBlockNumber(RPC_URL, "eth_blockNumber")
EthBlockNumber ==
  /\ pc = "eth_blockNumber"
  /\ \E reply \in BlockNumberReplies :
       /\ response' = reply
       /\ IF reply.status = "rejected"
            THEN Throw("TransportError")
            ELSE /\ latestBlockEthBlockNumber' = BlockNumberOf(reply)
                 /\ pc' = "eth_getBlockByNumber"
                 /\ UNCHANGED <<n, strategy, i, latestBlockEthGetBlockByNumber,
                                request, logs, j, err>>
  /\ batch' = NoBatch
  /\ UNCHANGED <<events, lastProcessedBlocks, iterated, fetchedTo, fetchedTopics>>

\* response.data.result && response.data.result.number
HasBlockNumber(reply) ==
  /\ "result" \in DOMAIN reply.data
  /\ "number" \in DOMAIN reply.data.result

\* await getLatestBlockNumber(RPC_URL, "eth_getBlockByNumber"), then the call
\* of processNetworkLogs for the first strategy.
EthGetBlockByNumber ==
  /\ pc = "eth_getBlockByNumber"
  /\ \E reply \in BlockByNumberReplies :
       /\ response' = reply
       /\ IF reply.status = "rejected"
            THEN Throw("TransportError")
            ELSE IF ~HasBlockNumber(reply)
              THEN Throw("ProtocolError")
              ELSE /\ latestBlockEthGetBlockByNumber' =
                        ParseInt16(reply.data.result.number)
                   /\ pc' = "target"
                   /\ strategy' = 1
                   /\ i' = 1
                   /\ UNCHANGED <<n, latestBlockEthBlockNumber, request, logs,
                                  j, err>>
  /\ batch' = NoBatch
  /\ UNCHANGED <<events, lastProcessedBlocks, iterated, fetchedTo, fetchedTopics>>

\* const fromBlock = lastProcessedBlocks[key] ? lastProcessedBlocks[key] + 1
\*                                            : latestBlock
FromBlock(last, latest) == IF Truthy(last) THEN PlusOne(last) ELSE latest

\* if (fromBlock > latestBlock) continue
Skips(fromBlock, latest) == GreaterThan(fromBlock, latest)

\* The body sent by getLogs.
LogsRequest(contractAddress, eventTopic, fromBlock, toBlock) ==
  [method |-> "eth_getLogs",
   fromBlock |-> HexQuantity(fromBlock),
   toBlock |-> HexQuantity(toBlock),
   address |-> <<contractAddress>>,
   topics |-> <<eventTopic>>]

\* ProcessEvent with the update of lastProcessedBlocks moved before the await
\* of getLogs: the block is recorded when the request is sent.
ProcessEventAdvancing ==
  /\ pc = "target"
  /\ LET fromBlock == FromBlock(lastProcessedBlocks[eventKey], latestBlock)
     IN IF Skips(fromBlock, latestBlock)
          THEN NextEvent /\ UNCHANGED <<err, lastProcessedBlocks>>
          ELSE IF getEventTopic(event.event) = UnsupportedEvent
            THEN Throw("UnknownEventError") /\ UNCHANGED lastProcessedBlocks
            ELSE /\ pc' = "getLogs"
                 /\ request' = LogsRequest(event.factory_address,
                                           getEventTopic(event.event),
                                           fromBlock, latestBlock)
                 /\ lastProcessedBlocks' =
                      [lastProcessedBlocks EXCEPT ![eventKey] = latestBlock]
                 /\ UNCHANGED <<n, strategy, i, latestBlockEthBlockNumber,
                                latestBlockEthGetBlockByNumber, logs, j, err>>
  /\ batch' = NoBatch
  /\ UNCHANGED <<events, response, iterated, fetchedTo, fetchedTopics>>

\* One round of the loop of processNetworkLogs up to its await: the range is
\* computed, and the event is skipped or its logs are requested.
ProcessEvent ==
  /\ pc = "target"
  /\ LET fromBlock == FromBlock(lastProcessedBlocks[eventKey], latestBlock)
     IN IF Skips(fromBlock, latestBlock)
          THEN NextEvent /\ UNCHANGED err
          ELSE IF getEventTopic(event.event) = UnsupportedEvent
            THEN Throw("UnknownEventError")
            ELSE /\ pc' = "getLogs"
                 /\ request' = LogsRequest(event.factory_address,
                                           getEventTopic(event.event),
                                           fromBlock, latestBlock)
                 /\ UNCHANGED <<n, strategy, i, latestBlockEthBlockNumber,
                                latestBlockEthGetBlockByNumber, logs, j, err>>
  /\ batch' = NoBatch
  /\ UNCHANGED <<events, lastProcessedBlocks, response, iterated,
                 fetchedTo, fetchedTopics>>

\* SetLastProcessed with the key built without the strategy: one cursor per
\* network-contract pair, written by both passes.
SetLastProcessedAnyStrategy(blocks, key, latest) ==
  [k \in DOMAIN blocks |->
     IF k[1] = key[1] /\ k[2] = key[2] THEN latest ELSE blocks[k]]

\* lastProcessedBlocks[`${eventKey}-${strategy}`] = latestBlock
SetLastProcessed(blocks, key, latest) == [blocks EXCEPT ![key] = latest]

\* Advance with the update moved inside `if (logs.length > 0)`.
AdvanceIfLogs ==
  /\ IF logs # <<>>
       THEN lastProcessedBlocks' =
              [lastProcessedBlocks EXCEPT ![eventKey] = latestBlock]
       ELSE UNCHANGED lastProcessedBlocks
  /\ NextEvent

\* The update that ends a round of the loop, then the next round.
Advance ==
  /\ lastProcessedBlocks' = SetLastProcessed(lastProcessedBlocks, eventKey, latestBlock)
  /\ NextEvent


\* The reply to eth_getLogs arrives: getLogs returns response.data.result, and
\* logs.length throws when there is none.
GetLogs ==
  /\ pc = "getLogs"
  /\ \E reply \in LogsReplies(IF IsNumber(latestBlock) THEN latestBlock ELSE 0) :
       IF reply.status = "rejected"
         THEN /\ Throw("TransportError")
              /\ batch' = NoBatch
              /\ UNCHANGED <<lastProcessedBlocks, fetchedTo, fetchedTopics>>
         ELSE IF ~HasResult(reply)
           THEN /\ Throw("ProtocolError")
                /\ batch' = NoBatch
                /\ UNCHANGED <<lastProcessedBlocks, fetchedTo, fetchedTopics>>
           ELSE /\ batch' = [key |-> eventKey,
                             fromBlock |-> ParseInt16(request.fromBlock),
                             toBlock |-> ParseInt16(request.toBlock),
                             before |-> fetchedTo[eventKey],
                             logs |-> reply.data.result,
                             inserted |-> <<>>,
                             errors |-> <<>>,
                             messages |-> <<>>]
                /\ fetchedTo' = [fetchedTo EXCEPT ![eventKey] =
                                   ParseInt16(request.toBlock)]
                /\ fetchedTopics' = [fetchedTopics EXCEPT ![eventKey] =
                                       @ \cup Range(request.topics)]
                /\ IF Len(reply.data.result) > 0
                     THEN /\ pc' = "insert"
                          /\ logs' = reply.data.result
                          /\ j' = 1
                          /\ UNCHANGED <<lastProcessedBlocks, n, strategy, i,
                                         latestBlockEthBlockNumber,
                                         latestBlockEthGetBlockByNumber, request>>
                     ELSE Advance
                /\ UNCHANGED err
  /\ UNCHANGED <<events, response, iterated>>

\* LogData with the strategy column fixed to the first strategy.
LogDataOneStrategy(logEntry, ev, strat) ==
  [transaction_index |-> ParseInt16(logEntry.transactionIndex),
   transaction_hash |-> logEntry.transactionHash,
   log_index |-> ParseInt16(logEntry.logIndex),
   removed |-> logEntry.removed,
   block_number |-> ParseInt16(logEntry.blockNumber),
   block_hash |-> logEntry.blockHash,
   exchange |-> ev.exchange_name,
   network |-> ev.chain,
   strategy |-> Strategies[1]]

\* const logData = {...}
LogData(logEntry, ev, strat) ==
  [transaction_index |-> ParseInt16(logEntry.transactionIndex),
   transaction_hash |-> logEntry.transactionHash,
   log_index |-> ParseInt16(logEntry.logIndex),
   removed |-> logEntry.removed,
   block_number |-> ParseInt16(logEntry.blockNumber),
   block_hash |-> logEntry.blockHash,
   exchange |-> ev.exchange_name,
   network |-> ev.chain,
   strategy |-> strat]

\* ContinuesAfter with a `break` in the branch of a failed insert.
BreaksAfter(error) == ~error

\* After a failed insert the loop over the logs goes on with the next entry.
ContinuesAfter(error) == TRUE

\* One round of the loop over the logs: the record is built from the entry and
\* inserted, the outcome is logged; after the last entry the round of the
\* outer loop ends with the update of lastProcessedBlocks.
Insert ==
  /\ pc = "insert"
  /\ \E error \in BOOLEAN :
       /\ batch' = [batch EXCEPT
            !.inserted = Append(@, LogData(logs[j], event, Strategies[strategy])),
            !.errors = Append(@, error),
            !.messages = Append(@, IF error
                                     THEN "Error inserting data into Supabase"
                                     ELSE "Inserted log into Supabase")]
       /\ UNCHANGED err
       /\ IF j < Len(logs) /\ ContinuesAfter(error)
            THEN /\ j' = j + 1
                 /\ UNCHANGED <<lastProcessedBlocks, pc, n, strategy, i,
                                latestBlockEthBlockNumber,
                                latestBlockEthGetBlockByNumber, request, logs>>
            ELSE Advance
  /\ UNCHANGED <<events, response, iterated, fetchedTo, fetchedTopics>>

Next ==
  \/ ProcessLogs
  \/ GetRpcUrl
  \/ EthBlockNumber
  \/ EthGetBlockByNumber
  \/ ProcessEvent
  \/ GetLogs
  \/ Insert

Spec == Init /\ [][Next]_vars

\* Every awaited call returns or fails (the HTTP client times out), and the
\* loop of runContinuously runs without a pause.
FairSpec == Spec /\ WF_vars(Next)

\* ------------------------------------------------------------------- claims

ValidEvent(e) ==
  /\ getRpcUrl(e.chain) # UnsupportedChain
  /\ getEventTopic(e.event) # UnsupportedEvent

\* The step that ends the two passes over a network without an exception.
NetworkCompletes ==
  /\ pc \in {"target", "getLogs", "insert"}
  /\ strategy = 2
  /\ i = Len(networkEvents)
  /\ pc' \in {"getRpcUrl", "loop"}
  /\ err' = "none"

\* Both latest-block queries of the running iteration returned a block number.
LatestObserved ==
  IsNumber(latestBlockEthBlockNumber) /\ IsNumber(latestBlockEthGetBlockByNumber)

\* C1 (as claimed): for every key, each range fetched successfully starts
\* above the end of the range fetched before it for that key, so no block is
\* fetched twice.
C1_RangesIncrease ==
  (batch # NoBatch /\ IsNumber(batch.fromBlock) /\ IsNumber(batch.before))
    => batch.fromBlock > batch.before

\* C2 (as claimed): a cursor that holds a block number keeps holding a block
\* number, and never a lower one.
C2_CursorNeverDecreases ==
  [][\A k \in Keys :
       IsNumber(lastProcessedBlocks[k])
         => /\ IsNumber(lastProcessedBlocks'[k])
            /\ lastProcessedBlocks'[k] >= lastProcessedBlocks[k]]_vars

\* C3 (as claimed): when the passes over a network end without an error, the
\* cursor of every key of the network equals the latest block observed for the
\* key's strategy in this iteration.
C3_CursorEqualsLatest ==
  [][(NetworkCompletes /\ LatestObserved)
       => \A k \in 1..Len(networkEvents) :
            /\ lastProcessedBlocks'[KeyOf(networkEvents[k], Strategies[1])]
                 = latestBlockEthBlockNumber
            /\ lastProcessedBlocks'[KeyOf(networkEvents[k], Strategies[2])]
                 = latestBlockEthGetBlockByNumber]_vars

\* C3 (amended): when the passes over a network end without an error, the
\* cursor of every key of the network is a block number not below the latest
\* block observed for the key's strategy in this iteration; and a step changes
\* a cursor only to the latest block of the running pass, for the key of the
\* event being processed: so the cursor is that latest block, or the higher
\* block it held before the iteration.
C3_CursorAtLeastLatest ==
  [][/\ (NetworkCompletes /\ LatestObserved)
          => \A k \in 1..Len(networkEvents) :
               /\ lastProcessedBlocks'[KeyOf(networkEvents[k], Strategies[1])]
                    >= latestBlockEthBlockNumber
               /\ lastProcessedBlocks'[KeyOf(networkEvents[k], Strategies[2])]
                    >= latestBlockEthGetBlockByNumber
     /\ \A k \in Keys :
          lastProcessedBlocks'[k] # lastProcessedBlocks[k]
            => /\ pc \in {"getLogs", "insert"}
               /\ k = eventKey
               /\ lastProcessedBlocks'[k] = latestBlock]_vars

\* C3 witness: an iteration ended without an error, its last fetch for a key
\* ended at the latest block, and the cursor of the key is that block.
C3_Witness ==
  /\ pc = "loop" /\ iterated /\ err = "none"
  /\ batch # NoBatch
  /\ IsNumber(batch.toBlock) /\ batch.fromBlock < batch.toBlock
  /\ lastProcessedBlocks[batch.key] = batch.toBlock

\* C4 (as claimed): the range requested for a key starts at the latest block
\* when the key has no cursor, and at cursor + 1 when it has a cursor c >= 0.
C4_StartOfRange ==
  (pc = "getLogs" /\ IsNumber(latestBlock)
     /\ (lastProcessedBlocks[eventKey] = Undefined
           \/ IsNumber(lastProcessedBlocks[eventKey])))
    => request.fromBlock =
         HexQuantity(IF lastProcessedBlocks[eventKey] = Undefined
                       THEN latestBlock
                       ELSE lastProcessedBlocks[eventKey] + 1)

\* C5 (as claimed): an event whose fromBlock exceeds the latest block is
\* skipped (no request, no insert, no cursor change, no error), and every
\* request that is issued has fromBlock <= toBlock.
C5_SkipAndOrderedRange ==
  [][/\ (pc = "target"
           /\ GreaterThan(FromBlock(lastProcessedBlocks[eventKey], latestBlock),
                          latestBlock))
          => /\ pc' \notin {"getLogs", "insert"}
             /\ lastProcessedBlocks' = lastProcessedBlocks
             /\ err' = err
     /\ (pc' = "getLogs")
          => /\ IsNumber(ParseInt16(request'.fromBlock))
             /\ IsNumber(ParseInt16(request'.toBlock))
             /\ ParseInt16(request'.fromBlock) <= ParseInt16(request'.toBlock)]_vars

BatchComplete == batch # NoBatch /\ Len(batch.inserted) = Len(batch.logs)

\* C6: after getLogs returned a list for [fromBlock, latestBlock], with or
\* without entries, the inserts of its entries run to the end and the cursor
\* of the key is then latestBlock.
C6_FetchAdvancesCursor ==
  batch # NoBatch
    => IF Len(batch.inserted) = Len(batch.logs)
         THEN lastProcessedBlocks[batch.key] = batch.toBlock
         ELSE pc = "insert" /\ eventKey = batch.key /\ latestBlock = batch.toBlock

\* C6 witness: a fetch over a range of several blocks returned no entry and
\* the cursor is at the end of the range.
C6_Witness ==
  /\ BatchComplete
  /\ batch.logs = <<>>
  /\ IsNumber(batch.fromBlock) /\ batch.fromBlock < batch.toBlock
  /\ lastProcessedBlocks[batch.key] = batch.toBlock

\* C7: when an insert of a batch failed, every entry of the batch is still
\* passed to insert, in the order of the reply; each failure is logged; and
\* the cursor of the key is latestBlock once the batch is through.
C7_SinkErrorIsolated ==
  (batch # NoBatch /\ \E k \in 1..Len(batch.errors) : batch.errors[k])
    => /\ \A k \in 1..Len(batch.inserted) :
            /\ batch.inserted[k].log_index = ParseInt16(batch.logs[k].logIndex)
            /\ batch.inserted[k].transaction_hash = batch.logs[k].transactionHash
            /\ batch.errors[k]
                 => batch.messages[k] = "Error inserting data into Supabase"
       /\ IF Len(batch.inserted) = Len(batch.logs)
            THEN lastProcessedBlocks[batch.key] = batch.toBlock
            ELSE pc = "insert" /\ j = Len(batch.inserted) + 1

\* C7 witness: the first insert of a batch failed, the others were made, and
\* the cursor advanced.
C7_Witness ==
  /\ BatchComplete
  /\ Len(batch.logs) >= 2
  /\ batch.errors[1]
  /\ lastProcessedBlocks[batch.key] = batch.toBlock

SinkErrorLogged ==
  batch # NoBatch /\ \E k \in 1..Len(batch.errors) : batch.errors[k]

\* C8: after an error of any kind (the iteration was abandoned with a
\* transport, protocol, unknown-event or unsupported-network error, or an
\* insert failed), processLogs is entered again.
C8_LoopContinues ==
  (err # "none" \/ SinkErrorLogged) ~> (pc = "getRpcUrl" /\ n = 1 /\ err = "none")

\* C8 witness: an iteration was abandoned with an error and the loop is about
\* to call processLogs again.
C8_Witness == pc = "loop" /\ err = "UnknownEventError"

\* C9 (as claimed): when an iteration made no RPC call that failed, every
\* valid event of the file has been polled: its cursors are set under both
\* strategies, even if another event or network of the file is invalid.
C9_ValidEventsPolled ==
  (pc = "loop" /\ iterated /\ err \notin {"TransportError", "ProtocolError"})
    => \A k \in 1..Len(events) :
         ValidEvent(events[k])
           => /\ lastProcessedBlocks[KeyOf(events[k], Strategies[1])] # Undefined
              /\ lastProcessedBlocks[KeyOf(events[k], Strategies[2])] # Undefined

\* C10 (as claimed): a reply to a latest-block query that has no result makes
\* the query fail under both strategies, so no range is requested up to, and
\* no cursor holds, a value that is not a block number.
C10_MalformedReplyFails ==
  /\ (response.status = "ok" /\ "result" \notin DOMAIN response.data)
       => (pc = "loop" /\ err = "ProtocolError")
  /\ (pc = "getLogs") => IsNumber(ParseInt16(request.toBlock))
  /\ \A k \in Keys : lastProcessedBlocks[k] # NaN

\* The flow of control is past getRpcUrl, inside the body of the loop over the
\* networks: a latest-block query, a log fetch or an insert is awaited, or the
\* next event is about to be examined.
InNetworkBody ==
  pc \in {"eth_blockNumber", "eth_getBlockByNumber", "target", "getLogs", "insert"}

\* C11: in every iteration, a network that getRpcUrl has no endpoint for ends
\* the iteration with the unsupported-network error at getRpcUrl, and neither
\* a latest-block query nor a log fetch is ever issued for such a network.
C11_UnsupportedNetworkBeforeRpc ==
  [][/\ (pc = "getRpcUrl" /\ getRpcUrl(network) = UnsupportedChain)
          => (pc' = "loop" /\ err' = "UnsupportedNetworkError"
                /\ lastProcessedBlocks' = lastProcessedBlocks)
     /\ InNetworkBody' => getRpcUrl(network') # UnsupportedChain]_vars

\* C11 witness: an iteration was ended by the unsupported-network error while
\* a cursor of a supported network of the file is set.
C11_Witness ==
  /\ pc = "loop" /\ err = "UnsupportedNetworkError"
  /\ \E k \in Keys : IsNumber(lastProcessedBlocks[k])

\* C12 (as claimed): whenever the round of an event whose name getEventTopic
\* does not know begins, it ends the iteration with the unknown-event error,
\* without a getLogs request and without a change of any cursor.
C12_UnknownEventFails ==
  [][(pc = "target" /\ getEventTopic(event.event) = UnsupportedEvent)
       => /\ pc' = "loop"
          /\ err' = "UnknownEventError"
          /\ lastProcessedBlocks' = lastProcessedBlocks]_vars

\* The record expected for the k-th entry of the reply being inserted: the
\* numbers the endpoint encoded in hex (RawLog), the hashes and the removed
\* flag as received, and the exchange, chain and strategy of the round.
ExpectedRecord(k) ==
  [transaction_index |-> k - 1,
   transaction_hash |-> logs[k].transactionHash,
   log_index |-> k,
   removed |-> logs[k].removed,
   block_number |-> IF IsNumber(latestBlock) THEN latestBlock ELSE 0,
   block_hash |-> logs[k].blockHash,
   exchange |-> event.exchange_name,
   network |-> network,
   strategy |-> Strategies[strategy]]

\* C13: for every reply of getLogs that carries a list, one record per entry
\* is passed to insert, in the order of the list and none twice or left out;
\* the record holds the decoded numbers and the untouched hashes and flag of
\* the entry, with the exchange and chain of the event of the round and the
\* strategy of the pass, and nothing else.
C13_OneRecordPerEntry ==
  [][/\ (pc = "insert")
          => /\ batch.key = eventKey /\ batch.logs = logs
             /\ Len(batch.inserted) = j - 1
             /\ batch'.inserted = Append(batch.inserted, ExpectedRecord(j))
             /\ pc' # "insert" => j = Len(logs)
             /\ pc' = "insert" => j' = j + 1 /\ logs' = logs
     /\ (pc # "insert" /\ batch' # NoBatch)
          => /\ batch'.inserted = <<>>
             /\ pc' = "insert" <=> batch'.logs # <<>>
             /\ pc' = "insert" => (logs' = batch'.logs /\ j' = 1)]_vars

\* C13 witness: a reply with two entries to a fetch of the second pass was
\* inserted entry by entry, without a failed insert.
C13_Witness ==
  /\ BatchComplete
  /\ Len(batch.logs) = 2
  /\ batch.key[3] = Strategies[2]
  /\ \A k \in 1..Len(batch.errors) : ~batch.errors[k]

\* C14 (as claimed): when every event of the file is valid and an iteration
\* ends without an error and with a block number in the cursor of every key of
\* the file, every event of the file was fetched with its own topic under both
\* strategies, also when two events share chain and factory_address.
C14_EveryTargetFetched ==
  (/\ pc = "loop" /\ iterated /\ err = "none"
   /\ \A k \in 1..Len(events) : ValidEvent(events[k])
   /\ \A k \in 1..Len(events), s \in 1..2 :
        IsNumber(lastProcessedBlocks[KeyOf(events[k], Strategies[s])]))
    => \A k \in 1..Len(events), s \in 1..2 :
         getEventTopic(events[k].event)
           \in fetchedTopics[KeyOf(events[k], Strategies[s])]

\* The step in which the awaited getLogs call throws: the request was rejected
\* or the reply has no result list.
FetchFails == pc = "getLogs" /\ pc' = "loop" /\ err' # "none"

\* A cursor changes only in the step that ends the round of its key, after
\* getLogs returned a list and the inserts were made; a step that abandons the
\* iteration changes no cursor.
CursorChangesLast ==
  /\ \A k \in Keys :
       lastProcessedBlocks'[k] # lastProcessedBlocks[k]
         => /\ pc \in {"getLogs", "insert"}
            /\ k = eventKey
            /\ pc' \in {"target", "getRpcUrl", "loop"}
            /\ err' = "none"
  /\ err' # "none" => lastProcessedBlocks' = lastProcessedBlocks

InPasses == pc \in {"target", "getLogs", "insert"}

\* C16: in the round of a network, eth_blockNumber is queried once, then
\* eth_getBlockByNumber once, before the two passes; a network has one round
\* per iteration; the two values stay as returned during the passes; and
\* every getLogs request of a pass has as toBlock the value returned for the
\* strategy of the pass.
C16_LatestQueriedOnce ==
  [][/\ pc' = "eth_blockNumber" => (pc = "getRpcUrl" /\ n' = n)
     /\ pc' = "eth_getBlockByNumber"
          => /\ pc = "eth_blockNumber" /\ n' = n
             /\ latestBlockEthBlockNumber' = BlockNumberOf(response')
     /\ pc' = "getRpcUrl"
          => /\ n' = n + 1
             /\ \A a, b \in 1..Len(Networks) : Networks[a] = Networks[b] => a = b
     /\ (pc = "eth_getBlockByNumber" /\ InPasses')
          => /\ n' = n
             /\ latestBlockEthBlockNumber' = latestBlockEthBlockNumber
             /\ latestBlockEthGetBlockByNumber' = ParseInt16(response'.data.result.number)
     /\ (InPasses /\ InPasses')
          => /\ n' = n
             /\ latestBlockEthBlockNumber' = latestBlockEthBlockNumber
             /\ latestBlockEthGetBlockByNumber' = latestBlockEthGetBlockByNumber
     /\ InPasses' => pc \in {"eth_getBlockByNumber", "target", "getLogs", "insert"}
     /\ pc' = "getLogs"
          => request'.toBlock =
               HexQuantity(IF strategy' = 1 THEN latestBlockEthBlockNumber'
                                            ELSE latestBlockEthGetBlockByNumber')]_vars

\* C16 witness: the second event of a network is requested in the second pass
\* up to the block eth_getBlockByNumber returned, which is not the block
\* eth_blockNumber returned.
C16_Witness ==
  /\ pc = "getLogs" /\ strategy = 2 /\ i = 2
  /\ LatestObserved
  /\ latestBlockEthBlockNumber # latestBlockEthGetBlockByNumber
  /\ request.toBlock = HexQuantity(latestBlockEthGetBlockByNumber)

\* The tracking key of the running round: chain and factory_address of the
\* event, strategy of the pass.
TrackingKey == <<event.chain, event.factory_address, Strategies[strategy]>>

\* C17: the round of an event in a pass reads only the cursor of (chain,
\* factory_address, strategy of the pass) (whether the event is skipped, and
\* the start of the requested range, follow from that cursor and the latest
\* block of the pass) and writes only that cursor: the cursor of the same
\* event under the other strategy and the cursors of every other chain or
\* address are left as they were; outside a round no cursor changes.
C17_CursorsIndependent ==
  [][/\ \A k \in Keys :
          lastProcessedBlocks'[k] # lastProcessedBlocks[k]
            => (InPasses /\ k = TrackingKey)
     /\ (pc = "target" /\ err' = err)
          => LET start == FromBlock(lastProcessedBlocks[TrackingKey], latestBlock)
             IN /\ pc' = "getLogs" <=> ~Skips(start, latestBlock)
                /\ pc' = "getLogs" => request'.fromBlock = HexQuantity(start)]_vars

\* C17 witness: a fetch of the second pass completed, and the cursor of its
\* key differs from the cursor of the same event under the first strategy.
C17_Witness ==
  /\ BatchComplete
  /\ batch.key[3] = Strategies[2]
  /\ IsNumber(lastProcessedBlocks[batch.key])
  /\ IsNumber(lastProcessedBlocks[<<batch.key[1], batch.key[2], Strategies[1]>>])
  /\ lastProcessedBlocks[batch.key]
       # lastProcessedBlocks[<<batch.key[1], batch.key[2], Strategies[1]>>]

\* The position of the flow of control inside an iteration moves forward:
\* next network, or same network and next pass, or same pass and next event,
\* or same event and next log entry.
MovesForward ==
  \/ n' > n
  \/ n' = n /\ strategy' > strategy
  \/ n' = n /\ strategy' = strategy /\ i' > i
  \/ n' = n /\ strategy' = strategy /\ i' = i /\ j' >= j

\* C18: there is one flow of control. A call of processLogs starts only when
\* the previous one has returned; each awaited call (latest-block query, log
\* fetch, insert) is issued from the step before it and answered before the
\* next one is issued; the position moves forward through networks, passes,
\* events and entries; and between the read of a cursor at the start of a
\* round and its write at the end, the flow stays in that round: no other
\* cursor access happens until the write, which is for the key that was read.
C18_SingleFlow ==
  [][/\ (pc' = "getRpcUrl" /\ n' = 1) => pc = "loop"
     /\ pc' = "eth_blockNumber" => pc = "getRpcUrl"
     /\ pc' = "eth_getBlockByNumber" => pc = "eth_blockNumber"
     /\ pc' = "getLogs" => (pc = "target" /\ request' # NoRequest)
     /\ pc' = "insert" => pc \in {"getLogs", "insert"}
     /\ pc' \notin {"getLogs", "insert"} => request' = NoRequest
     /\ (pc # "loop" /\ pc' # "loop") => MovesForward
     /\ (pc' \in {"getLogs", "insert"})
          => /\ n' = n /\ strategy' = strategy /\ i' = i
             /\ lastProcessedBlocks' = lastProcessedBlocks
     /\ \A k \in Keys :
          lastProcessedBlocks'[k] # lastProcessedBlocks[k]
            => (pc \in {"getLogs", "insert"} /\ k = TrackingKey)]_vars

\* C18 witness: the second entry of a reply is being inserted in the second
\* pass of the second network of the file, after the first network was
\* processed.
C18_Witness ==
  /\ pc = "insert" /\ n = 2 /\ strategy = 2 /\ j = 2
  /\ \A s \in 1..2 : IsNumber(lastProcessedBlocks[KeyOf(events[1], Strategies[s])])

\* C19 (as claimed): a successful fetch for a key that was fetched before
\* starts at the block after the end of the previous successful fetch of the
\* key, whatever block number that end is, 0 included.
C19_FetchesContiguous ==
  (batch # NoBatch /\ IsNumber(batch.before) /\ IsNumber(batch.fromBlock))
    => batch.fromBlock = batch.before + 1

\* C20 (as claimed): a getLogs request is issued and a cursor is written only
\* in the passes of a network whose two latest-block queries both returned a
\* block number in this iteration; a query that fails ends the iteration with
\* every cursor as it was.
C20_FetchOnlyAfterBothQueries ==
  [][/\ (pc' = "getLogs" \/ lastProcessedBlocks' # lastProcessedBlocks)
          => (InPasses /\ LatestObserved)
     /\ (pc \in {"eth_blockNumber", "eth_getBlockByNumber"} /\ ~InPasses'
           /\ pc' # "eth_getBlockByNumber")
          => (pc' = "loop" /\ err' # "none"
                /\ lastProcessedBlocks' = lastProcessedBlocks)]_vars

====
